---- MODULE Spec2Model ----
(***************************************************************************)
(* Model of the matching engine of student-teacher-matcher:                *)
(*   src/src/utils.py    subject_overlap, available_time_overlap           *)
(*   src/src/matcher.py  assign_student_to_slot,                           *)
(*                       match_students_to_teachers (baseline),            *)
(*                       train_teacher_recommender,                        *)
(*                       match_with_feedback_loop (orchestrator)           *)
(*   src/src/data_loader.py  safe_split, load_students, load_teachers      *)
(*                       (SpecLoader, on its own)                          *)
(* One behaviour is one call of match_with_feedback_loop (which itself     *)
(* calls the baseline matcher and the trainer), one step per statement     *)
(* group or loop iteration.  SpecRerun repeats the call on the same        *)
(* inputs.                                                                 *)
(***************************************************************************)
EXTENDS Integers, Sequences, FiniteSets, TLC

VARIABLES
    students,          \* input DataFrame: sequence of student rows
    teachers,          \* input DataFrame: sequence of teacher rows
    feedback_df,       \* input DataFrame: sequence of feedback rows (<<>> = None or empty)
    student_cols,      \* columns present in the students frame
    teacher_cols,      \* columns present in the teachers frame
    pc,                \* position in match_with_feedback_loop
    err,               \* exception that aborted the run ("" = none)
    teacher_weights,   \* dict teacher_id -> weight, only the ids set from feedback
    teacher_slots,     \* usage table of match_with_feedback_loop
    base_slots,        \* usage table local to match_students_to_teachers
    initial_schedule,  \* schedule built by match_students_to_teachers
    bi,                \* number of students the baseline loop has processed
    clf,               \* the fitted recommender: [fitted, train (the merged rows)]
    final_schedule,    \* schedule built by match_with_feedback_loop
    si,                \* number of students the main loop has processed
    status,            \* per student: outcome of its main-loop iteration
    argsort_memo,      \* results the (deterministic) sort routine has given
    predict_memo,      \* results the (deterministic, seeded) forest has given
    run,               \* 1 in the first call, 2 in the repeated call
    prev_schedule      \* the schedule returned by the first call

vars == <<students, teachers, feedback_df, student_cols, teacher_cols, pc, err,
          teacher_weights, teacher_slots, base_slots, initial_schedule, bi,
          clf, final_schedule, si, status, argsort_memo, predict_memo, run,
          prev_schedule>>

inputs == <<students, teachers, feedback_df, student_cols, teacher_cols>>

-----------------------------------------------------------------------------
(* Bounds and input universes                                              *)

MaxStudents == 2
MaxCap == 2
MaxFeedback == 1

\* The teacher ids, in teacher input order.
TeacherIds == <<1, 2>>

\* The slot labels, listed in the lexicographic order sorted() gives them.
SortedSlots == <<"Mon9", "Tue9">>

\* Subject lists and slot lists the input rows are drawn from (the loader
\* hands the matcher non-empty lists of strings).
StudentSubjectChoices == {{"Math"}, {"Sci"}, {"Math", "Sci"}}

StudentSlotChoices == {{"Mon9"}, {"Mon9", "Tue9"}}

TeacherSubjectChoices == {{"Math"}, {"Sci"}}

TeacherSlotChoices == {{"Mon9"}, {"Tue9"}, {"Mon9", "Tue9"}}

\* Ratings are integers 1..5; the model draws them from two of the values.
RatingChoices == {2, 5}

\* students frames of up to n rows, ids 1..n in input order
StudentFrames(n, SubjC, SlotC) ==
    UNION {{[i \in 1..m |-> [student_id |-> i,
                             subjects |-> p[i][1],
                             preferred_time_slots |-> p[i][2]]] :
              p \in [1..m -> SubjC \X SlotC]} : m \in 0..n}

\* teachers frames of 1..Len(TeacherIds) rows, ids in input order
TeacherFrames(SubjC, SlotC, maxcap) ==
    UNION {{[j \in 1..m |-> [teacher_id |-> TeacherIds[j],
                             subjects |-> p[j][1],
                             available_time_slots |-> p[j][2],
                             max_students_per_slot |-> p[j][3]]] :
              p \in [1..m -> SubjC \X SlotC \X (1..maxcap)]} :
           m \in 1..Len(TeacherIds)}

\* feedback frames of up to n rows about the teachers
FeedbackFrames(n) ==
    UNION {[1..m -> [teacher_id : {TeacherIds[j] : j \in 1..Len(TeacherIds)},
                     rating : RatingChoices]] : m \in 0..n}

-----------------------------------------------------------------------------
(* src/src/utils.py                                                        *)

subject_overlap(student_subjects, teacher_subjects) ==
    (student_subjects \cap teacher_subjects) # {}

\* The common slots in descending order.
available_time_overlap_desc(student_times, teacher_times) ==
    LET asc == SelectSeq(SortedSlots,
                         LAMBDA s : s \in (student_times \cap teacher_times))
    IN [k \in 1..Len(asc) |-> asc[Len(asc) + 1 - k]]

available_time_overlap(student_times, teacher_times) ==
    SelectSeq(SortedSlots, LAMBDA s : s \in (student_times \cap teacher_times))

-----------------------------------------------------------------------------
(* src/src/matcher.py : helpers                                            *)

\* assign_student_to_slot judging the count after the increment.
assign_student_to_slot_post(student_id, teacher_id, slot, current_count) ==
    [student_id |-> student_id,
     teacher_id |-> teacher_id,
     time_slot |-> slot,
     lesson_type |-> IF current_count + 1 = 0 THEN "1:1" ELSE "group"]

assign_student_to_slot(student_id, teacher_id, slot, current_count) ==
    [student_id |-> student_id,
     teacher_id |-> teacher_id,
     time_slot |-> slot,
     lesson_type |-> IF current_count = 0 THEN "1:1" ELSE "group"]

required_student_cols == {"student_id", "subjects", "preferred_time_slots"}

\* The teacher column check without max_students_per_slot.
required_teacher_cols_short ==
    {"teacher_id", "subjects", "available_time_slots"}

required_teacher_cols ==
    {"teacher_id", "subjects", "available_time_slots", "max_students_per_slot"}

\* {tid: {slot: 0 for slot in teacher["available_time_slots"]} for tid, teacher in ...}
ZeroSlots ==
    [tid \in {teachers[j].teacher_id : j \in 1..Len(teachers)} |->
        LET j == CHOOSE k \in 1..Len(teachers) : teachers[k].teacher_id = tid
        IN [s \in teachers[j].available_time_slots |-> 0]]

\* FirstFree with the capacity test written "<=" instead of "<".
FirstFreeOffByOne(common_slots, usage, cap) ==
    LET free == {k \in 1..Len(common_slots) : usage[common_slots[k]] <= cap}
    IN IF free = {} THEN 0 ELSE CHOOSE k \in free : \A m \in free : k <= m

\* The inner "for slot in common_slots: if usage < max: ...; break" loop:
\* position in common_slots of the first slot below capacity, 0 if none.
FirstFree(common_slots, usage, cap) ==
    LET free == {k \in 1..Len(common_slots) : usage[common_slots[k]] < cap}
    IN IF free = {} THEN 0 ELSE CHOOSE k \in free : \A m \in free : k <= m

\* A scan that gives up after the first listed teacher row.
ScanTeachersFirstOnly(order, student, slots) ==
    IF order = <<>> THEN [j |-> 0, slot |-> ""]
    ELSE LET t == teachers[Head(order)]
             common_slots == available_time_overlap(student.preferred_time_slots,
                                                    t.available_time_slots)
             k == FirstFree(common_slots, slots[t.teacher_id],
                            t.max_students_per_slot)
         IN IF k # 0 THEN [j |-> Head(order), slot |-> common_slots[k]]
            ELSE [j |-> 0, slot |-> ""]

\* The "for teacher in ...: for slot in common_slots: ..." scan over the
\* teacher rows listed in order (positions in teachers): the first row
\* that has a common slot below capacity, with that slot; j = 0 if none.
RECURSIVE ScanTeachers(_, _, _)
ScanTeachers(order, student, slots) ==
    IF order = <<>> THEN [j |-> 0, slot |-> ""]
    ELSE LET t == teachers[Head(order)]
             common_slots == available_time_overlap(student.preferred_time_slots,
                                                    t.available_time_slots)
             k == FirstFree(common_slots, slots[t.teacher_id],
                            t.max_students_per_slot)
         IN IF k # 0 THEN [j |-> Head(order), slot |-> common_slots[k]]
            ELSE ScanTeachers(Tail(order), student, slots)

\* Compatible keeping only the teachers whose subjects equal the student's.
CompatibleExact(student) ==
    SelectSeq([j \in 1..Len(teachers) |-> j],
              LAMBDA j : student.subjects = teachers[j].subjects)

\* Compatible keeping only the first teacher whose subjects overlap.
CompatibleFirst(student) ==
    LET all == SelectSeq([j \in 1..Len(teachers) |-> j],
                  LAMBDA j : subject_overlap(student.subjects, teachers[j].subjects))
    IN IF all = <<>> THEN <<>> ELSE <<all[1]>>

\* Compatible without the subject filter.
CompatibleAll(student) ==
    [j \in 1..Len(teachers) |-> j]

\* Positions of the teacher rows whose subjects overlap the student's,
\* in teacher input order.
Compatible(student) ==
    SelectSeq([j \in 1..Len(teachers) |-> j],
              LAMBDA j : subject_overlap(student.subjects, teachers[j].subjects))

-----------------------------------------------------------------------------
(* Feedback weights (matcher.py 118-122) as exact fractions <<num, den>>   *)

RECURSIVE Gcd(_, _)
Gcd(a, b) == IF b = 0 THEN a ELSE Gcd(b, a % b)

Frac(n, d) == <<n \div Gcd(n, d), d \div Gcd(n, d)>>

FracLess(a, b) == a[1] * b[2] < b[1] * a[2]

RECURSIVE RatingSum(_, _)
RatingSum(rows, tid) ==
    IF rows = <<>> THEN 0
    ELSE (IF Head(rows).teacher_id = tid THEN Head(rows).rating ELSE 0)
         + RatingSum(Tail(rows), tid)

RatingCount(rows, tid) ==
    Cardinality({k \in 1..Len(rows) : rows[k].teacher_id = tid})

\* Weights from the sum of the ratings instead of their mean.
FeedbackWeightsSum(rows) ==
    [tid \in {rows[k].teacher_id : k \in 1..Len(rows)} |->
        Frac(RatingSum(rows, tid), 5)]

\* avg_ratings = feedback_df.groupby("teacher_id")["rating"].mean();
\* teacher_weights[tid] = rating / 5.0
FeedbackWeights(rows) ==
    [tid \in {rows[k].teacher_id : k \in 1..Len(rows)} |->
        Frac(RatingSum(rows, tid), 5 * RatingCount(rows, tid))]

\* teacher_weights is a defaultdict(lambda: 1.0)
WeightOf(tid) ==
    IF tid \in DOMAIN teacher_weights THEN teacher_weights[tid] ELSE <<1, 1>>

\* The candidates left in teacher input order (the sort forgotten).
sort_values_unsorted(ws) ==
    {[k \in 1..Len(ws) |-> k]}

\* DataFrame.sort_values("weight", ascending=False) with the default
\* kind="quicksort": some permutation of the rows that makes the weights
\* non-increasing; the order of rows of equal weight is not specified.
sort_values(ws) ==
    {p \in [1..Len(ws) -> 1..Len(ws)] :
        /\ \A a, b \in 1..Len(ws) : a # b => p[a] # p[b]
        /\ \A k \in 1..(Len(ws) - 1) : ~FracLess(ws[p[k]], ws[p[k + 1]])}

-----------------------------------------------------------------------------
(* train_teacher_recommender (matcher.py 101-109)                          *)

\* df = pd.merge(students, schedule[["student_id", "teacher_id"]]):
\* one row <<subjects, teacher_id>> per assignment, in student order.
RECURSIVE MergeRows(_, _)
MergeRows(studs, schedule) ==
    IF studs = <<>> THEN <<>>
    ELSE LET hits == SelectSeq(schedule,
                        LAMBDA a : a.student_id = Head(studs).student_id)
         IN [k \in 1..Len(hits) |->
                [subjects |-> Head(studs).subjects,
                 teacher_id |-> hits[k].teacher_id]]
            \o MergeRows(Tail(studs), schedule)

\* MultiLabelBinarizer: the vocabulary is the subjects seen in training;
\* transform() drops the subjects outside it.
Vocabulary(train) == UNION {train[k].subjects : k \in 1..Len(train)}

Classes(train) == {train[k].teacher_id : k \in 1..Len(train)}

NotFitted == [fitted |-> FALSE, train |-> <<>>]

-----------------------------------------------------------------------------
(* State after the arguments are bound and before the first statement      *)

RunInit ==
    /\ pc = "weights"
    /\ err = ""
    /\ teacher_weights = <<>>
    /\ teacher_slots = <<>>
    /\ base_slots = <<>>
    /\ initial_schedule = <<>>
    /\ bi = 0
    /\ clf = NotFitted
    /\ final_schedule = <<>>
    /\ si = 0
    /\ status = [i \in 1..Len(students) |-> "unassigned"]

InitWith(SF, TF, FF, SC, TC) ==
    /\ students \in SF
    /\ teachers \in TF
    /\ feedback_df \in FF
    /\ student_cols \in SC
    /\ teacher_cols \in TC
    /\ argsort_memo = <<>>
    /\ predict_memo = <<>>
    /\ run = 1
    /\ prev_schedule = <<>>
    /\ RunInit

\* Well-formed frames, no feedback yet (first run).
Init ==
    InitWith(StudentFrames(MaxStudents, StudentSubjectChoices, StudentSlotChoices),
             TeacherFrames(TeacherSubjectChoices, TeacherSlotChoices, MaxCap),
             {<<>>}, {required_student_cols}, {required_teacher_cols})

\* Well-formed frames with feedback records from earlier runs.
WeightStudentSubjects == {{"Math"}, {"Math", "Sci"}}

WeightTeacherSlots == {{"Mon9"}, {"Mon9", "Tue9"}}

InitWeights ==
    InitWith(StudentFrames(MaxStudents, WeightStudentSubjects, StudentSlotChoices),
             TeacherFrames(TeacherSubjectChoices, WeightTeacherSlots, MaxCap),
             FeedbackFrames(MaxFeedback),
             {required_student_cols}, {required_teacher_cols})

\* The frames of a repeated call: at most one feedback record.
InitRerun ==
    InitWith(StudentFrames(MaxStudents, WeightStudentSubjects, StudentSlotChoices),
             TeacherFrames(TeacherSubjectChoices, WeightTeacherSlots, MaxCap),
             FeedbackFrames(1),
             {required_student_cols}, {required_teacher_cols})

\* One kind of student and of teacher, several feedback records per teacher.
InitMean ==
    InitWith(StudentFrames(MaxStudents, {{"Math"}}, {{"Mon9"}}),
             TeacherFrames({{"Math"}}, {{"Mon9"}}, MaxCap),
             FeedbackFrames(MaxFeedback + 1),
             {required_student_cols}, {required_teacher_cols})

\* Well-formed frames for the runs followed to their end.
InitFair ==
    InitWith(StudentFrames(MaxStudents, {{"Math"}, {"Sci"}}, {{"Mon9"}, {"Tue9"}}),
             TeacherFrames({{"Math"}}, {{"Mon9"}, {"Tue9"}}, MaxCap),
             {<<>>}, {required_student_cols}, {required_teacher_cols})

\* Frames that may lack columns.
SchemaStudentCols ==
    SUBSET {"student_id", "subjects", "preferred_time_slots"}

SchemaTeacherCols ==
    SUBSET {"teacher_id", "subjects", "available_time_slots",
            "max_students_per_slot"}

InitSchema ==
    InitWith(StudentFrames(MaxStudents, {{"Math"}}, {{"Mon9"}}),
             TeacherFrames({{"Math"}}, {{"Mon9"}}, MaxCap),
             {<<>>}, SchemaStudentCols, SchemaTeacherCols)

-----------------------------------------------------------------------------
(* match_with_feedback_loop, statement by statement                        *)

Raise(e) ==
    /\ err' = e
    /\ pc' = "error"

\* Commit counting the student in every slot of the teacher.
CommitWholeTeacher(schedule, slots, student_id, teacher_id, slot) ==
    [schedule |-> Append(schedule,
                     assign_student_to_slot(student_id, teacher_id, slot,
                                            slots[teacher_id][slot])),
     slots |-> [slots EXCEPT ![teacher_id] =
                   [s \in DOMAIN @ |-> @[s] + 1]]]

\* Commit without the increment of the usage table.
CommitNoIncrement(schedule, slots, student_id, teacher_id, slot) ==
    [schedule |-> Append(schedule,
                     assign_student_to_slot(student_id, teacher_id, slot,
                                            slots[teacher_id][slot])),
     slots |-> slots]

\* schedule.append(assign_student_to_slot(...)); teacher_slots[tid][slot] += 1
Commit(schedule, slots, student_id, teacher_id, slot) ==
    [schedule |-> Append(schedule,
                     assign_student_to_slot(student_id, teacher_id, slot,
                                            slots[teacher_id][slot])),
     slots |-> [slots EXCEPT ![teacher_id][slot] = @ + 1]]

\* A greedy scan that tries the first listed candidate only.
GreedyAttemptTopOnly(student, order, schedule, slots) ==
    LET g == ScanTeachers(IF order = <<>> THEN <<>> ELSE <<order[1]>>,
                         student, slots)
        c == Commit(schedule, slots, student.student_id,
                    teachers[g.j].teacher_id, g.slot)
    IN IF g.j # 0
       THEN [schedule |-> c.schedule, slots |-> c.slots, assigned |-> TRUE]
       ELSE [schedule |-> schedule, slots |-> slots, assigned |-> FALSE]

\* matcher.py 146-169: the greedy scan over the sorted candidates
GreedyAttempt(student, order, schedule, slots) ==
    LET g == ScanTeachers(order, student, slots)
        c == Commit(schedule, slots, student.student_id,
                    teachers[g.j].teacher_id, g.slot)
    IN IF g.j # 0
       THEN [schedule |-> c.schedule, slots |-> c.slots, assigned |-> TRUE]
       ELSE [schedule |-> schedule, slots |-> slots, assigned |-> FALSE]

\* The fallback attempt without its "if not assigned:" guard.
RunsFallbackAlways(assigned) == TRUE

\* matcher.py 171: "if not assigned:" guards the fallback attempt
RunsFallback(assigned) == ~assigned

\* A forest fitted without a fixed random_state: any label, call by call.
ForestPredictionsUnseeded(key) ==
    Classes(key[1])

\* matcher.py 107 and 172: the forest is fitted with random_state=42, so
\* clf.predict is a function of the training rows and the encoded subjects;
\* its value is one of the labels seen in training.
ForestPredictions(key) ==
    IF key \in DOMAIN predict_memo
    THEN {predict_memo[key]}
    ELSE Classes(key[1])

\* matcher.py 144: the sort routine is a function of the weight column.
SortResults(ws) ==
    IF ws \in DOMAIN argsort_memo
    THEN {argsort_memo[ws]}
    ELSE sort_values(ws)

\* A fallback attempt that raises when the predicted teacher has no room.
FallbackAttemptRaising(student, predicted, schedule, slots) ==
    LET rows == SelectSeq([j \in 1..Len(teachers) |-> j],
                          LAMBDA j : teachers[j].teacher_id = predicted)
        f == ScanTeachers(<<rows[1]>>, student, slots)
        c == Commit(schedule, slots, student.student_id, predicted, f.slot)
    IN IF f.j # 0
       THEN [schedule |-> c.schedule, slots |-> c.slots,
             assigned |-> TRUE, error |-> ""]
       ELSE [schedule |-> schedule, slots |-> slots,
             assigned |-> FALSE, error |-> "ValueError"]

\* A fallback attempt that commits only if the predicted teacher shares a
\* subject with the student.
FallbackAttemptChecked(student, predicted, schedule, slots) ==
    LET rows == SelectSeq([j \in 1..Len(teachers) |-> j],
                          LAMBDA j : teachers[j].teacher_id = predicted)
    IN IF rows = <<>>
       THEN [schedule |-> schedule, slots |-> slots, assigned |-> FALSE,
             error |-> "IndexError"]
       ELSE LET f == ScanTeachers(<<rows[1]>>, student, slots)
                c == Commit(schedule, slots, student.student_id, predicted, f.slot)
            IN IF f.j # 0 /\ subject_overlap(student.subjects,
                                             teachers[rows[1]].subjects)
               THEN [schedule |-> c.schedule, slots |-> c.slots,
                     assigned |-> TRUE, error |-> ""]
               ELSE [schedule |-> schedule, slots |-> slots,
                     assigned |-> FALSE, error |-> ""]

\* matcher.py 172-193: the fallback attempt; predicted is the id that
\* clf.predict returned.  teachers[...].iloc[0] raises IndexError when no
\* row has that id.
FallbackAttempt(student, predicted, schedule, slots) ==
    LET rows == SelectSeq([j \in 1..Len(teachers) |-> j],
                          LAMBDA j : teachers[j].teacher_id = predicted)
    IN IF rows = <<>>
       THEN [schedule |-> schedule, slots |-> slots, assigned |-> FALSE,
             error |-> "IndexError"]
       ELSE LET f == ScanTeachers(<<rows[1]>>, student, slots)
                c == Commit(schedule, slots, student.student_id, predicted, f.slot)
            IN IF f.j # 0
               THEN [schedule |-> c.schedule, slots |-> c.slots,
                     assigned |-> TRUE, error |-> ""]
               ELSE [schedule |-> schedule, slots |-> slots,
                     assigned |-> FALSE, error |-> ""]

\* The weight column of the candidate rows of a student (matcher.py 141-143)
WeightColumn(cand) ==
    [k \in 1..Len(cand) |-> WeightOf(teachers[cand[k]].teacher_id)]

-----------------------------------------------------------------------------
(* The steps of one call                                                   *)

\* matcher.py 118-122
ComputeWeights ==
    /\ pc = "weights"
    /\ teacher_weights' = FeedbackWeights(feedback_df)
    /\ pc' = "slots"
    /\ UNCHANGED <<inputs, err, teacher_slots, base_slots, initial_schedule, bi,
                   clf, final_schedule, si, status, argsort_memo, predict_memo,
                   run, prev_schedule>>

\* matcher.py 124-127: set_index("teacher_id") and teacher["available_time_slots"]
\* raise KeyError when the column is absent.
InitTeacherSlots ==
    /\ pc = "slots"
    /\ IF {"teacher_id", "available_time_slots"} \subseteq teacher_cols
       THEN /\ teacher_slots' = ZeroSlots
            /\ pc' = "baseline_start"
            /\ err' = err
       ELSE /\ Raise("KeyError")
            /\ teacher_slots' = teacher_slots
    /\ UNCHANGED <<inputs, teacher_weights, base_slots, initial_schedule, bi,
                   clf, final_schedule, si, status, argsort_memo, predict_memo,
                   run, prev_schedule>>

\* match_students_to_teachers, matcher.py 37-64: column checks, usage table
BaselineStart ==
    /\ pc = "baseline_start"
    /\ IF ~(required_student_cols \subseteq student_cols)
       THEN /\ Raise("ValueError")
            /\ UNCHANGED <<base_slots, initial_schedule, bi>>
       ELSE IF ~(required_teacher_cols \subseteq teacher_cols)
       THEN /\ Raise("ValueError")
            /\ UNCHANGED <<base_slots, initial_schedule, bi>>
       ELSE /\ base_slots' = ZeroSlots
            /\ initial_schedule' = <<>>
            /\ bi' = 0
            /\ pc' = "baseline"
            /\ err' = err
    /\ UNCHANGED <<inputs, teacher_weights, teacher_slots, clf, final_schedule,
                   si, status, argsort_memo, predict_memo, run, prev_schedule>>

\* A baseline pass that counts its assignments in the usage table of the
\* feedback loop as well.
BaselineStudentShared ==
    /\ pc = "baseline"
    /\ bi < Len(students)
    /\ LET student == students[bi + 1]
           g == GreedyAttempt(student, Compatible(student), initial_schedule,
                              base_slots)
       IN /\ initial_schedule' = g.schedule
          /\ base_slots' = g.slots
          /\ teacher_slots' = g.slots
    /\ bi' = bi + 1
    /\ UNCHANGED <<inputs, pc, err, teacher_weights, clf,
                   final_schedule, si, status, argsort_memo, predict_memo, run,
                   prev_schedule>>

\* match_students_to_teachers, matcher.py 66-95: one iteration of the student loop
BaselineStudent ==
    /\ pc = "baseline"
    /\ bi < Len(students)
    /\ LET student == students[bi + 1]
           g == GreedyAttempt(student, Compatible(student), initial_schedule,
                              base_slots)
       IN /\ initial_schedule' = g.schedule
          /\ base_slots' = g.slots
    /\ bi' = bi + 1
    /\ UNCHANGED <<inputs, pc, err, teacher_weights, teacher_slots, clf,
                   final_schedule, si, status, argsort_memo, predict_memo, run,
                   prev_schedule>>

\* matcher.py 97-98 (baseline returns), 131-132 and 101-109:
\* pd.DataFrame([]) has no columns, so schedule[["student_id", "teacher_id"]]
\* raises KeyError when the baseline made no assignment.
Train ==
    /\ pc = "baseline"
    /\ bi = Len(students)
    /\ IF initial_schedule = <<>>
       THEN /\ Raise("KeyError")
            /\ clf' = clf
       ELSE /\ clf' = [fitted |-> TRUE,
                       train |-> MergeRows(students, initial_schedule)]
            /\ pc' = "loop"
            /\ err' = err
    /\ UNCHANGED <<inputs, teacher_weights, teacher_slots, base_slots,
                   initial_schedule, bi, final_schedule, si, status,
                   argsort_memo, predict_memo, run, prev_schedule>>

\* matcher.py 134-198: one iteration of the main student loop
LoopStudent ==
    /\ pc = "loop"
    /\ si < Len(students)
    /\ LET student == students[si + 1]
           cand == Compatible(student)
           ws == WeightColumn(cand)
           key == <<clf.train, student.subjects \cap Vocabulary(clf.train)>>
       IN \E perm \in SortResults(ws) :
            /\ argsort_memo' = (ws :> perm) @@ argsort_memo
            /\ LET order == [k \in 1..Len(cand) |-> cand[perm[k]]]
                   g == GreedyAttempt(student, order, final_schedule, teacher_slots)
               IN IF RunsFallback(g.assigned)
                  THEN \E predicted \in ForestPredictions(key) :
                         LET f == FallbackAttempt(student, predicted,
                                                  g.schedule, g.slots)
                         IN /\ predict_memo' = (key :> predicted) @@ predict_memo
                            /\ IF f.error # ""
                               THEN /\ Raise(f.error)
                                    /\ UNCHANGED <<final_schedule, teacher_slots,
                                                   si, status>>
                               ELSE /\ final_schedule' = f.schedule
                                    /\ teacher_slots' = f.slots
                                    /\ status' = [status EXCEPT ![si + 1] =
                                          IF g.assigned THEN "greedy-assigned"
                                          ELSE IF f.assigned THEN "fallback-assigned"
                                          ELSE "unmatched"]
                                    /\ si' = si + 1
                                    /\ UNCHANGED <<pc, err>>
                  ELSE /\ final_schedule' = g.schedule
                       /\ teacher_slots' = g.slots
                       /\ status' = [status EXCEPT ![si + 1] = "greedy-assigned"]
                       /\ si' = si + 1
                       /\ UNCHANGED <<pc, err, predict_memo>>
    /\ UNCHANGED <<inputs, teacher_weights, base_slots, initial_schedule, bi, clf,
                   run, prev_schedule>>

\* matcher.py 200-203
Finish ==
    /\ pc = "loop"
    /\ si = Len(students)
    /\ pc' = "done"
    /\ UNCHANGED <<inputs, err, teacher_weights, teacher_slots, base_slots,
                   initial_schedule, bi, clf, final_schedule, si, status,
                   argsort_memo, predict_memo, run, prev_schedule>>

Next ==
    \/ ComputeWeights
    \/ InitTeacherSlots
    \/ BaselineStart
    \/ BaselineStudent
    \/ Train
    \/ LoopStudent
    \/ Finish

\* The caller calls match_with_feedback_loop again on the same frames.
Rerun ==
    /\ pc = "done"
    /\ run = 1
    /\ run' = 2
    /\ prev_schedule' = final_schedule
    /\ pc' = "weights"
    /\ err' = ""
    /\ teacher_weights' = <<>>
    /\ teacher_slots' = <<>>
    /\ base_slots' = <<>>
    /\ initial_schedule' = <<>>
    /\ bi' = 0
    /\ clf' = NotFitted
    /\ final_schedule' = <<>>
    /\ si' = 0
    /\ status' = [i \in 1..Len(students) |-> "unassigned"]
    /\ UNCHANGED <<inputs, argsort_memo, predict_memo>>

NextRerun ==
    \/ Next
    \/ Rerun

Spec == Init /\ [][Next]_vars

SpecSchema == InitSchema /\ [][Next]_vars

SpecRerun == InitRerun /\ [][NextRerun]_vars

SpecWeights == InitWeights /\ [][Next]_vars

SpecMean == InitMean /\ [][Next]_vars

\* Every statement of the single-threaded run is eventually executed.
FairSpec == InitFair /\ [][Next]_vars /\ WF_vars(Next)

-----------------------------------------------------------------------------
(* src/src/data_loader.py: the loader that main.py runs before the matcher *)
(* A string is a sequence of characters; a cell of the CSV frame is a      *)
(* string or NaN (an empty cell).  load_students and load_teachers         *)
(* overwrite the list columns in place, so students and teachers hold the  *)
(* raw cells before the step and the lists after it.                       *)

MaxRawLen == 3

Chars == {"a", ",", " "}

\* what read_csv gives for an empty cell; pd.isna(value) is value = NaN
NaN == <<"nan">>

Strings(n) == UNION {[1..m -> Chars] : m \in 0..n}

RawValues(n) == {NaN} \cup Strings(n)

\* a few raw cells for the column that a frame does not vary in full
RawSamples == {NaN, <<",">>, <<"a">>}

RawIds == {NaN, <<"1">>}

RawStudentFrames ==
    {<<[student_id |-> id, subjects |-> a, preferred_time_slots |-> b]>> :
        id \in RawIds, a \in RawValues(MaxRawLen), b \in RawSamples}

RawTeacherFrames ==
    {<<[teacher_id |-> id, subjects |-> a, available_time_slots |-> b,
        max_students_per_slot |-> 1]>> :
        id \in RawIds, a \in RawSamples, b \in RawValues(MaxRawLen)}

\* str.strip(): leading and trailing blanks removed
RECURSIVE lstrip(_)
lstrip(s) ==
    IF s # <<>> /\ Head(s) = " " THEN lstrip(Tail(s)) ELSE s

RECURSIVE rstrip(_)
rstrip(s) ==
    IF s # <<>> /\ s[Len(s)] = " " THEN rstrip(SubSeq(s, 1, Len(s) - 1)) ELSE s

strip(s) == rstrip(lstrip(s))

\* str.split(sep): the pieces between the separators, empty pieces kept
RECURSIVE split(_, _)
split(s, sep) ==
    LET hits == {k \in 1..Len(s) : s[k] = sep}
    IN IF hits = {} THEN <<s>>
       ELSE LET k == CHOOSE x \in hits : \A y \in hits : x <= y
            IN <<SubSeq(s, 1, k - 1)>> \o split(SubSeq(s, k + 1, Len(s)), sep)

DefaultSubject == <<"U", "n", "k", "n", "o", "w", "n">>

DefaultSlot == <<"N", "/", "A">>

\* data_loader.py 12-20
safe_split(value, field_name, default) ==
    IF value = NaN \/ strip(value) = <<>>
    THEN <<default>>
    ELSE LET kept == SelectSeq(split(value, ","),
                               LAMBDA item : strip(item) # <<>>)
         IN [k \in 1..Len(kept) |-> strip(kept[k])]

\* The matcher has not started: only the frames and pc matter.
InitLoader ==
    /\ students \in RawStudentFrames
    /\ teachers \in RawTeacherFrames
    /\ feedback_df = <<>>
    /\ student_cols = required_student_cols
    /\ teacher_cols = required_teacher_cols
    /\ pc = "load_students"
    /\ err = ""
    /\ teacher_weights = <<>>
    /\ teacher_slots = <<>>
    /\ base_slots = <<>>
    /\ initial_schedule = <<>>
    /\ bi = 0
    /\ clf = NotFitted
    /\ final_schedule = <<>>
    /\ si = 0
    /\ status = <<>>
    /\ argsort_memo = <<>>
    /\ predict_memo = <<>>
    /\ run = 1
    /\ prev_schedule = <<>>

\* data_loader.py 24-57: dropna(subset=["student_id"]), then the two
\* list columns are replaced by safe_split of their cells
load_students ==
    /\ pc = "load_students"
    /\ LET kept == SelectSeq(students, LAMBDA r : r.student_id # NaN)
       IN students' =
             [i \in 1..Len(kept) |->
                 [student_id |-> kept[i].student_id,
                  subjects |-> safe_split(kept[i].subjects, "subjects",
                                          DefaultSubject),
                  preferred_time_slots |->
                      safe_split(kept[i].preferred_time_slots,
                                 "preferred_time_slots", DefaultSlot)]]
    /\ pc' = "load_teachers"
    /\ UNCHANGED <<teachers, feedback_df, student_cols, teacher_cols, err,
                   teacher_weights, teacher_slots, base_slots, initial_schedule,
                   bi, clf, final_schedule, si, status, argsort_memo,
                   predict_memo, run, prev_schedule>>

\* data_loader.py 61-94
load_teachers ==
    /\ pc = "load_teachers"
    /\ LET kept == SelectSeq(teachers, LAMBDA r : r.teacher_id # NaN)
       IN teachers' =
             [j \in 1..Len(kept) |->
                 [teacher_id |-> kept[j].teacher_id,
                  subjects |-> safe_split(kept[j].subjects, "subjects",
                                          DefaultSubject),
                  available_time_slots |->
                      safe_split(kept[j].available_time_slots,
                                 "available_time_slots", DefaultSlot),
                  max_students_per_slot |-> kept[j].max_students_per_slot]]
    /\ pc' = "loaded"
    /\ UNCHANGED <<students, feedback_df, student_cols, teacher_cols, err,
                   teacher_weights, teacher_slots, base_slots, initial_schedule,
                   bi, clf, final_schedule, si, status, argsort_memo,
                   predict_memo, run, prev_schedule>>

\* data_loader.py 98-111: load_data
NextLoader ==
    \/ load_students
    \/ load_teachers

SpecLoader == InitLoader /\ [][NextLoader]_vars

-----------------------------------------------------------------------------
(* Vocabulary of the properties                                            *)

TeacherRow(tid) ==
    teachers[CHOOSE j \in 1..Len(teachers) : teachers[j].teacher_id = tid]

StudentIndex(sid) ==
    CHOOSE i \in 1..Len(students) : students[i].student_id = sid

SamePair(a, b) == a.teacher_id = b.teacher_id /\ a.time_slot = b.time_slot

\* Number of assignments of schedule that reference (tid, slot)
CountPair(schedule, tid, slot) ==
    Cardinality({k \in 1..Len(schedule) :
                    schedule[k].teacher_id = tid /\ schedule[k].time_slot = slot})

Terminal == {"greedy-assigned", "fallback-assigned", "unmatched"}

\* The assignment of final_schedule made for the student at position i
AssignmentsOf(i) ==
    {k \in 1..Len(final_schedule) :
        final_schedule[k].student_id = students[i].student_id}

-----------------------------------------------------------------------------
(* C1  Capacity invariant: at every point of the run, for every teacher    *)
(* and slot, the occupancy recorded in the usage table and the number of   *)
(* assignments made so far to that pair are both at most the teacher's     *)
(* max_students_per_slot, in the feedback-loop matcher (greedy and         *)
(* fallback commits) and in the baseline matcher.                          *)

CapacityRespected(schedule, slots) ==
    \A j \in 1..Len(teachers) : \A k \in 1..Len(SortedSlots) :
        LET t == teachers[j]
            s == SortedSlots[k]
        IN /\ CountPair(schedule, t.teacher_id, s) <= t.max_students_per_slot
           /\ (t.teacher_id \in DOMAIN slots /\ s \in DOMAIN slots[t.teacher_id])
                 => slots[t.teacher_id][s] <= t.max_students_per_slot

C1_CapacityInvariant ==
    /\ CapacityRespected(final_schedule, teacher_slots)
    /\ CapacityRespected(initial_schedule, base_slots)

\* A pair filled to capacity by a greedy commit followed by a fallback commit.
C1_Witness ==
    /\ pc = "done"
    /\ \E a, b \in 1..Len(final_schedule) :
          /\ a < b
          /\ SamePair(final_schedule[a], final_schedule[b])
          /\ status[StudentIndex(final_schedule[a].student_id)] = "greedy-assigned"
          /\ status[StudentIndex(final_schedule[b].student_id)] = "fallback-assigned"
          /\ teacher_slots[final_schedule[b].teacher_id][final_schedule[b].time_slot]
                = TeacherRow(final_schedule[b].teacher_id).max_students_per_slot

-----------------------------------------------------------------------------
(* C2  Uniqueness: no student id appears in more than one assignment of    *)
(* final_schedule; a student committed by the greedy scan is not committed *)
(* again by the fallback.                                                  *)

C2_Uniqueness ==
    \A a, b \in 1..Len(final_schedule) :
        a # b => final_schedule[a].student_id # final_schedule[b].student_id

\* A finished run in which the greedy-assigned student's teacher is also the
\* predicted teacher and still has room in a slot the student prefers.
C2_Witness ==
    /\ pc = "done"
    /\ \E i \in 1..Len(students) :
          /\ status[i] = "greedy-assigned"
          /\ \E k \in AssignmentsOf(i) :
                LET t == TeacherRow(final_schedule[k].teacher_id)
                IN /\ t.teacher_id \in Classes(clf.train)
                   /\ \E s \in students[i].preferred_time_slots
                              \cap t.available_time_slots :
                         teacher_slots[t.teacher_id][s] < t.max_students_per_slot

-----------------------------------------------------------------------------
(* C3  Lesson-type rule: in a schedule the first assignment to a (teacher, *)
(* slot) pair has lesson_type "1:1" and every later assignment to that     *)
(* pair has "group", on either path; so every pair that has an assignment  *)
(* has exactly one "1:1" assignment.                                       *)

LessonTypeRule(schedule) ==
    /\ \A k \in 1..Len(schedule) :
          schedule[k].lesson_type =
             IF \E m \in 1..(k - 1) : SamePair(schedule[m], schedule[k])
             THEN "group" ELSE "1:1"
    /\ \A k \in 1..Len(schedule) :
          Cardinality({m \in 1..Len(schedule) :
                          /\ SamePair(schedule[m], schedule[k])
                          /\ schedule[m].lesson_type = "1:1"}) = 1

C3_LessonTypeRule ==
    /\ LessonTypeRule(final_schedule)
    /\ LessonTypeRule(initial_schedule)

\* A pair whose "1:1" came from the greedy scan and whose "group" came from
\* the fallback.
C3_Witness ==
    \E a, b \in 1..Len(final_schedule) :
        /\ a < b
        /\ SamePair(final_schedule[a], final_schedule[b])
        /\ final_schedule[a].lesson_type = "1:1"
        /\ final_schedule[b].lesson_type = "group"
        /\ status[StudentIndex(final_schedule[b].student_id)] = "fallback-assigned"

-----------------------------------------------------------------------------
(* C4  Greedy-path soundness: every assignment committed by the greedy     *)
(* scan of the feedback-loop matcher, and every assignment of the baseline *)
(* matcher, has its slot in the student's preferred slots and in the       *)
(* teacher's available slots, and the two subject lists overlap.           *)

Sound(a) ==
    LET st == students[StudentIndex(a.student_id)]
        t == TeacherRow(a.teacher_id)
    IN /\ a.time_slot \in st.preferred_time_slots
       /\ a.time_slot \in t.available_time_slots
       /\ subject_overlap(st.subjects, t.subjects)

C4_GreedySound ==
    /\ \A k \in 1..Len(final_schedule) :
          status[StudentIndex(final_schedule[k].student_id)] = "greedy-assigned"
             => Sound(final_schedule[k])
    /\ \A k \in 1..Len(initial_schedule) : Sound(initial_schedule[k])

\* A finished run with a greedy assignment next to a fallback assignment
\* that pairs a student with a teacher of another subject.
C4_Witness ==
    /\ pc = "done"
    /\ \E a, b \in 1..Len(final_schedule) :
          /\ status[StudentIndex(final_schedule[a].student_id)] = "greedy-assigned"
          /\ Sound(final_schedule[a])
          /\ status[StudentIndex(final_schedule[b].student_id)] = "fallback-assigned"
          /\ ~Sound(final_schedule[b])

-----------------------------------------------------------------------------
(* C5  Weight monotonicity: a student the greedy scan assigns is never     *)
(* given a teacher while a subject-compatible teacher of strictly higher   *)
(* weight has a common slot below capacity; and of two teachers with the   *)
(* same subjects, slots and capacity but different weights that could both *)
(* serve the student, the student is assigned and never to the lower one,  *)
(* whatever the teacher input order.                                       *)

\* teacher row j could take the student given the usage table slots
CouldServe(j, student, slots) ==
    /\ subject_overlap(student.subjects, teachers[j].subjects)
    /\ \E s \in student.preferred_time_slots \cap teachers[j].available_time_slots :
          slots[teachers[j].teacher_id][s] < teachers[j].max_students_per_slot

SameProfile(a, b) ==
    /\ teachers[a].subjects = teachers[b].subjects
    /\ teachers[a].available_time_slots = teachers[b].available_time_slots
    /\ teachers[a].max_students_per_slot = teachers[b].max_students_per_slot

C5_WeightMonotonicity ==
    [][(pc = "loop" /\ si' = si + 1) =>
          LET student == students[si + 1]
              chosen == final_schedule'[Len(final_schedule')].teacher_id
          IN /\ status'[si + 1] = "greedy-assigned" =>
                   \A j \in 1..Len(teachers) :
                       FracLess(WeightOf(chosen), WeightOf(teachers[j].teacher_id))
                          => ~CouldServe(j, student, teacher_slots)
             /\ \A lo, hi \in 1..Len(teachers) :
                   ( /\ SameProfile(lo, hi)
                     /\ FracLess(WeightOf(teachers[lo].teacher_id),
                                 WeightOf(teachers[hi].teacher_id))
                     /\ CouldServe(lo, student, teacher_slots)
                     /\ CouldServe(hi, student, teacher_slots) )
                   => /\ status'[si + 1] = "greedy-assigned"
                      /\ chosen # teachers[lo].teacher_id
                      /\ ~FracLess(WeightOf(chosen),
                                   WeightOf(teachers[hi].teacher_id))]_vars

\* Two teachers of the same profile, the first in input order rated lower:
\* the first student both could serve went to the second teacher.
C5_Witness ==
    /\ Len(teachers) = 2
    /\ SameProfile(1, 2)
    /\ FracLess(WeightOf(teachers[1].teacher_id), WeightOf(teachers[2].teacher_id))
    /\ si >= 1
    /\ status[1] = "greedy-assigned"
    /\ final_schedule[1].teacher_id = teachers[2].teacher_id

-----------------------------------------------------------------------------
(* C6  EmptyTrainingSet: when the baseline matcher has produced no         *)
(* assignment, match_with_feedback_loop does not raise; it goes on without *)
(* a fallback, leaves every student unmatched and returns an empty         *)
(* schedule.                                                               *)

BaselineReturnedEmpty ==
    /\ pc \notin {"weights", "slots", "baseline_start", "baseline"}
    /\ Len(students) >= 1
    /\ initial_schedule = <<>>

C6_EmptyTrainingHandled ==
    BaselineReturnedEmpty =>
        /\ err = ""
        /\ pc \in {"loop", "done"}
        /\ final_schedule = <<>>
        /\ \A i \in 1..si : status[i] = "unmatched"

-----------------------------------------------------------------------------
(* C7  UnknownPredictedTeacher concerns a prediction that names no row of  *)
(* the teachers frame.  The labels the forest is trained on are teacher    *)
(* ids of baseline assignments over the same frame, so the lookup          *)
(* teachers[...].iloc[0] never fails in a run:                             *)

PredictedTeacherKnown ==
    /\ err # "IndexError"
    /\ clf.fitted =>
          Classes(clf.train) \subseteq {teachers[j].teacher_id : j \in 1..Len(teachers)}

-----------------------------------------------------------------------------
(* C8  Per-student state machine and run completion: once the main loop    *)
(* is entered (well-formed frames, non-empty training set), students leave *)
(* "unassigned" one at a time in input order, each for exactly one of      *)
(* greedy-assigned, fallback-assigned, unmatched, and never change again;  *)
(* the fallback outcomes occur only when no subject-compatible teacher     *)
(* had a free common slot; an unmatched student adds no assignment and     *)
(* does not stop the run; and the run reaches its return with every        *)
(* student in a terminal state.                                            *)

\* what the schedule holds for each student, given its state
AssignmentsMatchStatus ==
    \A i \in 1..Len(students) :
        /\ status[i] = "unassigned" => (si < i /\ AssignmentsOf(i) = {})
        /\ status[i] = "unmatched" => AssignmentsOf(i) = {}
        /\ status[i] \in {"greedy-assigned", "fallback-assigned"}
              => Cardinality(AssignmentsOf(i)) = 1

C8_StudentStateMachine ==
    /\ AssignmentsMatchStatus
    /\ [][/\ AssignmentsMatchStatus'
          /\ \A i \in 1..Len(students) :
               /\ status[i] \in Terminal => status'[i] = status[i]
               /\ status'[i] # status[i] =>
                     /\ status[i] = "unassigned"
                     /\ status'[i] \in Terminal
                     /\ i = si + 1
                     /\ si' = i
                     /\ \A m \in 1..Len(students) :
                           m # i => status'[m] = status[m]
               /\ (status[i] = "unassigned"
                     /\ status'[i] \in {"fallback-assigned", "unmatched"}) =>
                     \A j \in 1..Len(teachers) :
                         ~CouldServe(j, students[i], teacher_slots)
               /\ (status[i] = "unassigned" /\ status'[i] = "unmatched") =>
                     /\ final_schedule' = final_schedule
                     /\ teacher_slots' = teacher_slots
                     /\ pc' = "loop"
                     /\ err' = ""]_vars
    /\ [](pc = "loop" =>
            <>(/\ pc = "done"
               /\ si = Len(students)
               /\ \A i \in 1..Len(students) : status[i] \in Terminal))

\* A finished run whose first student ended unmatched and whose second
\* student was then assigned.
C8_Witness ==
    /\ pc = "done"
    /\ Len(students) >= 2
    /\ status[1] = "unmatched"
    /\ status[2] \in {"greedy-assigned", "fallback-assigned"}

-----------------------------------------------------------------------------
(* C9  Determinism: a second call of match_with_feedback_loop on the same  *)
(* students, teachers and feedback frames, with the same seeded forest and *)
(* the same sort routine, returns the same schedule, element by element.   *)

-----------------------------------------------------------------------------
(* C10  SchemaError: when the students frame lacks one of student_id,      *)
(* subjects, preferred_time_slots, or the teachers frame lacks one of      *)
(* teacher_id, subjects, available_time_slots, max_students_per_slot, the  *)
(* run raises before any student is processed: it never enters a student   *)
(* loop, no assignment is made and no occupancy leaves zero.               *)

MissingColumn ==
    \/ ~({"student_id", "subjects", "preferred_time_slots"} \subseteq student_cols)
    \/ ~({"teacher_id", "subjects", "available_time_slots",
          "max_students_per_slot"} \subseteq teacher_cols)

AllZero(slots) ==
    \A tid \in DOMAIN slots : \A s \in DOMAIN slots[tid] : slots[tid][s] = 0

C10_SchemaError ==
    MissingColumn =>
        /\ pc \in {"weights", "slots", "baseline_start", "error"}
        /\ pc = "error" => err \in {"KeyError", "ValueError"}
        /\ pc # "error" => (err = "" /\ ENABLED Next)
        /\ final_schedule = <<>>
        /\ initial_schedule = <<>>
        /\ si = 0
        /\ bi = 0
        /\ \A i \in 1..Len(students) : status[i] = "unassigned"
        /\ AllZero(teacher_slots)
        /\ AllZero(base_slots)

\* The run was aborted by the baseline's column check, after the usage
\* table of the feedback loop had been built.
C10_Witness ==
    /\ MissingColumn
    /\ pc = "error"
    /\ err = "ValueError"
    /\ teacher_slots # <<>>
    /\ Len(students) >= 1

-----------------------------------------------------------------------------
(* C11  Capacity exhaustion: with n >= 1 students of one profile (same     *)
(* subjects, the same single preferred slot), one teacher offering a       *)
(* subject and the slot with capacity c, and no feedback, the run raises   *)
(* nothing and returns exactly the first min(n, c) students in input       *)
(* order on that teacher and slot, the first "1:1" and the others          *)
(* "group"; every later student fails the greedy scan, the fallback        *)
(* predicts the same teacher and fails too, and the student is unmatched.  *)

ExhaustionScenario ==
    /\ Len(teachers) = 1
    /\ Len(students) >= 1
    /\ feedback_df = <<>>
    /\ required_student_cols \subseteq student_cols
    /\ required_teacher_cols \subseteq teacher_cols
    /\ \A i \in 1..Len(students) :
          /\ students[i].subjects = students[1].subjects
          /\ students[i].preferred_time_slots = students[1].preferred_time_slots
    /\ Cardinality(students[1].preferred_time_slots) = 1
    /\ students[1].preferred_time_slots \subseteq teachers[1].available_time_slots
    /\ students[1].subjects \cap teachers[1].subjects # {}

Min(a, b) == IF a <= b THEN a ELSE b

C11_CapacityExhaustion ==
    ExhaustionScenario =>
        LET served == Min(Len(students), teachers[1].max_students_per_slot)
            slot == CHOOSE s \in students[1].preferred_time_slots : TRUE
        IN /\ err = ""
           /\ pc # "done" => ENABLED Next
           /\ \A key \in DOMAIN predict_memo :
                 predict_memo[key] = teachers[1].teacher_id
           /\ \A i \in 1..si :
                 status[i] = IF i <= served THEN "greedy-assigned" ELSE "unmatched"
           /\ Len(final_schedule) = Min(si, served)
           /\ \A k \in 1..Len(final_schedule) :
                 final_schedule[k] =
                    [student_id |-> students[k].student_id,
                     teacher_id |-> teachers[1].teacher_id,
                     time_slot |-> slot,
                     lesson_type |-> IF k = 1 THEN "1:1" ELSE "group"]
           /\ pc = "done" => si = Len(students)

\* The scenario run to its end with more students than capacity: the
\* fallback was consulted for the last student, who is unmatched.
C11_Witness ==
    /\ ExhaustionScenario
    /\ pc = "done"
    /\ Len(students) > teachers[1].max_students_per_slot
    /\ status[Len(students)] = "unmatched"
    /\ DOMAIN predict_memo # {}

-----------------------------------------------------------------------------
(* C12  Stable candidate ordering: the candidates of a student are tried   *)
(* in order of weight descending, and candidates of equal weight in their  *)
(* teacher input order, for any number of candidates.  sort_values is      *)
(* called with its default kind="quicksort", which is not a stable sort:   *)
(* the order in which rows of equal weight come out is not the input       *)
(* order in general, so the statement does not hold of the code.           *)

C12_StableOrder ==
    \A ws \in DOMAIN argsort_memo :
        LET p == argsort_memo[ws]
        IN \A k \in 1..(Len(ws) - 1) :
              /\ ~FracLess(ws[p[k]], ws[p[k + 1]])
              /\ ws[p[k]] = ws[p[k + 1]] => p[k] < p[k + 1]

-----------------------------------------------------------------------------
(* C13  Baseline first-fit: match_students_to_teachers takes the students  *)
(* in input order and gives each the first teacher, in teacher input       *)
(* order, whose subjects overlap and that has a common slot below          *)
(* capacity, on the lexicographically smallest such slot; a teacher with   *)
(* subject overlap but no free common slot is passed over and the later    *)
(* teachers are still tried; the student gets no assignment, and the run   *)
(* goes on, exactly when no teacher and slot qualify; the returned list    *)
(* is in student input order.                                              *)

\* Position of a slot in lexicographic order
SlotPos(s) == CHOOSE k \in 1..Len(SortedSlots) : SortedSlots[k] = s

\* The common slots of the student and teacher row j that are below capacity
FreeCommon(j, student, slots) ==
    {s \in student.preferred_time_slots \cap teachers[j].available_time_slots :
        slots[teachers[j].teacher_id][s] < teachers[j].max_students_per_slot}

LeastSlot(S) == CHOOSE s \in S : \A r \in S : SlotPos(s) <= SlotPos(r)

InStudentOrder(schedule) ==
    \A a, b \in 1..Len(schedule) :
        a < b => StudentIndex(schedule[a].student_id)
                    < StudentIndex(schedule[b].student_id)

BaselineFirstFit ==
    (pc = "baseline" /\ bi' = bi + 1) =>
        LET student == students[bi + 1]
            able == {j \in 1..Len(teachers) : CouldServe(j, student, base_slots)}
        IN /\ pc' = "baseline" /\ err' = ""
           /\ InStudentOrder(initial_schedule')
           /\ IF able = {}
              THEN initial_schedule' = initial_schedule
              ELSE LET j == CHOOSE x \in able : \A y \in able : x <= y
                       a == initial_schedule'[Len(initial_schedule')]
                   IN /\ Len(initial_schedule') = Len(initial_schedule) + 1
                      /\ SubSeq(initial_schedule', 1, Len(initial_schedule))
                            = initial_schedule
                      /\ a.student_id = student.student_id
                      /\ a.teacher_id = teachers[j].teacher_id
                      /\ a.time_slot = LeastSlot(FreeCommon(j, student, base_slots))

C13_BaselineFirstFit == [][BaselineFirstFit]_vars

\* The baseline gave a student the second teacher although the first one
\* overlaps in subject and shares a slot with the student (which was full).
C13_Witness ==
    /\ Len(teachers) = 2
    /\ \E k \in 1..Len(initial_schedule) :
          LET student == students[StudentIndex(initial_schedule[k].student_id)]
          IN /\ initial_schedule[k].teacher_id = teachers[2].teacher_id
             /\ subject_overlap(student.subjects, teachers[1].subjects)
             /\ student.preferred_time_slots
                   \cap teachers[1].available_time_slots # {}

-----------------------------------------------------------------------------
(* C14  Slot choice: every commit of match_with_feedback_loop, greedy or   *)
(* fallback, is on the lexicographically smallest slot, among the          *)
(* student's preferred slots that the chosen teacher offers, whose         *)
(* occupancy is below the teacher's capacity at that moment; a teacher     *)
(* with no common slot gets no commit, and a student with no common slot   *)
(* with any teacher is processed without error.                            *)

TeacherPos(tid) ==
    CHOOSE j \in 1..Len(teachers) : teachers[j].teacher_id = tid

LoopSlotChoice ==
    (pc = "loop" /\ si' = si + 1) =>
        LET student == students[si + 1]
        IN /\ Len(final_schedule') > Len(final_schedule) =>
                LET a == final_schedule'[Len(final_schedule')]
                    j == TeacherPos(a.teacher_id)
                    free == FreeCommon(j, student, teacher_slots)
                IN /\ a.student_id = student.student_id
                   /\ free # {}
                   /\ a.time_slot = LeastSlot(free)
           /\ (\A j \in 1..Len(teachers) :
                  student.preferred_time_slots
                     \cap teachers[j].available_time_slots = {}) =>
                /\ final_schedule' = final_schedule
                /\ status'[si + 1] = "unmatched"
                /\ err' = "" /\ pc' = "loop"

C14_SlotChoice == [][LoopSlotChoice]_vars

\* A commit on the second slot of the intersection, the first being full.
C14_Witness ==
    \E k \in 1..Len(final_schedule) :
        LET a == final_schedule[k]
            student == students[StudentIndex(a.student_id)]
        IN /\ a.time_slot = SortedSlots[2]
           /\ SortedSlots[1] \in student.preferred_time_slots
                                    \cap TeacherRow(a.teacher_id).available_time_slots

-----------------------------------------------------------------------------
(* C15  Fresh usage table: the baseline pass run for training data does    *)
(* not consume capacity of the feedback loop: when the main loop is about  *)
(* to process its first student, the occupancy of the feedback loop is 0   *)
(* for every teacher and every slot the teacher offers, whatever the       *)
(* baseline assigned.                                                      *)

C15_FreshUsageTable ==
    (pc = "loop" /\ si = 0) =>
        \A j \in 1..Len(teachers) :
            \A s \in teachers[j].available_time_slots :
                teacher_slots[teachers[j].teacher_id][s] = 0

\* The main loop is about to start and the baseline filled a slot to
\* capacity in its own table.
C15_Witness ==
    /\ pc = "loop" /\ si = 0
    /\ \E j \in 1..Len(teachers) :
          \E s \in teachers[j].available_time_slots :
              /\ base_slots[teachers[j].teacher_id][s]
                    = teachers[j].max_students_per_slot
              /\ CountPair(initial_schedule, teachers[j].teacher_id, s)
                    = teachers[j].max_students_per_slot

-----------------------------------------------------------------------------
(* C16  Usage table evolution: the usage table of the feedback loop        *)
(* starts at 0 for every teacher and every slot the teacher offers;        *)
(* afterwards it changes only in a step that commits an assignment, where  *)
(* the entry of the committed teacher and slot grows by exactly 1 and      *)
(* every other entry keeps its value; a student that ends unmatched        *)
(* leaves it unchanged; no entry ever decreases.                           *)

\* The (teacher id, slot) pairs the usage table has an entry for
UsagePairs ==
    {p \in {teachers[j].teacher_id : j \in 1..Len(teachers)}
              \X {SortedSlots[k] : k \in 1..Len(SortedSlots)} :
        p[2] \in TeacherRow(p[1]).available_time_slots}

UsageEvolution ==
    /\ pc = "slots" /\ pc' # "error" =>
          /\ DOMAIN teacher_slots'
                = {teachers[j].teacher_id : j \in 1..Len(teachers)}
          /\ \A j \in 1..Len(teachers) :
                /\ DOMAIN teacher_slots'[teachers[j].teacher_id]
                      = teachers[j].available_time_slots
                /\ \A s \in teachers[j].available_time_slots :
                      teacher_slots'[teachers[j].teacher_id][s] = 0
    /\ pc # "slots" =>
          IF Len(final_schedule') = Len(final_schedule) + 1
          THEN LET a == final_schedule'[Len(final_schedule')]
               IN \A p \in UsagePairs :
                     teacher_slots'[p[1]][p[2]] =
                        IF p = <<a.teacher_id, a.time_slot>>
                        THEN teacher_slots[p[1]][p[2]] + 1
                        ELSE teacher_slots[p[1]][p[2]]
          ELSE /\ final_schedule' = final_schedule
               /\ teacher_slots' = teacher_slots
    /\ (pc = "loop" /\ si' = si + 1 /\ status'[si + 1] = "unmatched") =>
          teacher_slots' = teacher_slots

C16_UsageEvolution == [][UsageEvolution]_vars

\* A finished run in which a student ended unmatched and a teacher that
\* offers two slots holds one student in one of them and none in the other.
C16_Witness ==
    /\ pc = "done"
    /\ \E i \in 1..Len(students) : status[i] = "unmatched"
    /\ \E p, q \in UsagePairs :
          /\ p[1] = q[1] /\ p[2] # q[2]
          /\ teacher_slots[p[1]][p[2]] = 1
          /\ teacher_slots[q[1]][q[2]] = 0

-----------------------------------------------------------------------------
(* C17  Fallback commit: a fallback-assigned assignment names the teacher  *)
(* the recommender predicted for the student's subjects; its slot is a     *)
(* preferred slot of the student that this teacher offers and that was     *)
(* below capacity just before the commit; no subject-overlap test stands   *)
(* between the prediction and the commit: once the greedy scan has         *)
(* failed, a predicted teacher with a free common slot always gets the     *)
(* student, whatever the teacher's subjects.                               *)

\* What clf.predict is asked for the student
PredictKey(student) ==
    <<clf.train, student.subjects \cap Vocabulary(clf.train)>>

FallbackCommit ==
    (pc = "loop" /\ si' = si + 1) =>
        LET student == students[si + 1]
            key == PredictKey(student)
        IN /\ status'[si + 1] = "fallback-assigned" =>
                LET a == final_schedule'[Len(final_schedule')]
                IN /\ Len(final_schedule') = Len(final_schedule) + 1
                   /\ key \in DOMAIN predict_memo'
                   /\ a.student_id = student.student_id
                   /\ a.teacher_id = predict_memo'[key]
                   /\ a.time_slot \in FreeCommon(TeacherPos(a.teacher_id),
                                                 student, teacher_slots)
           /\ status'[si + 1] = "unmatched" =>
                /\ key \in DOMAIN predict_memo'
                /\ FreeCommon(TeacherPos(predict_memo'[key]), student,
                              teacher_slots) = {}

C17_FallbackCommit == [][FallbackCommit]_vars

\* A finished run holding a fallback-assigned student whose teacher, the
\* predicted one, teaches none of the student's subjects.
C17_Witness ==
    /\ pc = "done"
    /\ \E i \in 1..Len(students) :
          /\ status[i] = "fallback-assigned"
          /\ PredictKey(students[i]) \in DOMAIN predict_memo
          /\ \E k \in AssignmentsOf(i) :
                /\ final_schedule[k].teacher_id
                      = predict_memo[PredictKey(students[i])]
                /\ ~subject_overlap(students[i].subjects,
                       TeacherRow(final_schedule[k].teacher_id).subjects)

-----------------------------------------------------------------------------
(* C18  No needless unmatched student: a student ends unmatched only if,   *)
(* when the student is processed, no teacher with subject overlap has a    *)
(* common slot below capacity and the teacher the recommender predicts     *)
(* has none either; a student for whom some subject-compatible teacher     *)
(* has a free common slot is always greedy-assigned.                       *)

NoNeedlessUnmatched ==
    (pc = "loop" /\ si' = si + 1) =>
        LET student == students[si + 1]
            able == {j \in 1..Len(teachers) :
                        CouldServe(j, student, teacher_slots)}
        IN /\ able # {} => status'[si + 1] = "greedy-assigned"
           /\ status'[si + 1] = "unmatched" =>
                /\ able = {}
                /\ \A j \in 1..Len(teachers) :
                      teachers[j].teacher_id = predict_memo'[PredictKey(student)]
                         => FreeCommon(j, student, teacher_slots) = {}
           /\ status'[si + 1] \in Terminal

C18_NoNeedlessUnmatched == [][NoNeedlessUnmatched]_vars

\* With two teachers, a student ended unmatched although a teacher shares
\* a subject and a slot with the student (the slot was full), and another
\* student was greedy-assigned.
C18_Witness ==
    /\ pc = "done"
    /\ Len(teachers) = 2
    /\ \E i, h \in 1..Len(students) :
          /\ status[h] = "greedy-assigned"
          /\ status[i] = "unmatched"
          /\ \E j \in 1..Len(teachers) :
                /\ subject_overlap(students[i].subjects, teachers[j].subjects)
                /\ students[i].preferred_time_slots
                      \cap teachers[j].available_time_slots # {}

-----------------------------------------------------------------------------
(* C19  Feedback weights: the weight of a teacher with at least one        *)
(* feedback record is the arithmetic mean of the teacher's ratings         *)
(* divided by 5; the weight of a teacher with no record, or with an empty  *)
(* feedback frame, is 1.0; so every weight lies in [0, 1]; the mapping is  *)
(* complete before the first student is processed and no later step of     *)
(* the run changes it.                                                     *)

\* Total of the ratings of the feedback rows at the positions in S
RECURSIVE RatingTotal(_)
RatingTotal(S) ==
    IF S = {} THEN 0
    ELSE LET k == CHOOSE x \in S : TRUE
         IN feedback_df[k].rating + RatingTotal(S \ {k})

RecordsOf(tid) == {k \in 1..Len(feedback_df) : feedback_df[k].teacher_id = tid}

\* w = <<num, den>> is the mean rating of tid over 5: num/den = total/(5*count)
WeightsRight ==
    \A j \in 1..Len(teachers) :
        LET tid == teachers[j].teacher_id
            w == WeightOf(tid)
        IN /\ w[2] > 0
           /\ 0 <= w[1] /\ w[1] <= w[2]
           /\ IF RecordsOf(tid) = {}
              THEN w[1] = w[2]
              ELSE w[1] * 5 * Cardinality(RecordsOf(tid))
                      = w[2] * RatingTotal(RecordsOf(tid))

WeightsSettled ==
    /\ WeightsRight'
    /\ pc # "weights" => teacher_weights' = teacher_weights
    /\ (pc' = "baseline" \/ pc' = "loop") => pc # "weights"

C19_FeedbackWeights == [][WeightsSettled]_vars

\* A finished run with an assignment, a teacher with two records of
\* different ratings and a teacher with no record.
C19_Witness ==
    /\ pc = "done"
    /\ final_schedule # <<>>
    /\ \E a, b \in 1..Len(teachers) :
          /\ RecordsOf(teachers[a].teacher_id) = {}
          /\ WeightOf(teachers[a].teacher_id) = <<1, 1>>
          /\ \E k, m \in RecordsOf(teachers[b].teacher_id) :
                feedback_df[k].rating # feedback_df[m].rating
          /\ WeightOf(teachers[b].teacher_id) = <<7, 10>>

-----------------------------------------------------------------------------
(* C20  Weights order, never gate: for the student about to be processed   *)
(* and the usage table of that moment, the set of candidate teachers and   *)
(* whether the greedy scan commits an assignment are the same under any    *)
(* two weight mappings (only the teacher chosen may differ), and a         *)
(* teacher of the lowest possible weight is still a candidate.             *)

\* Weight mappings to compare: rating 1 or rating 5 for every teacher,
\* next to the mapping of the run.
LowestWeight == Frac(1, 5)

AltWeights ==
    [{teachers[j].teacher_id : j \in 1..Len(teachers)} -> {LowestWeight, Frac(5, 5)}]
        \cup {teacher_weights}

\* The weight column of the candidates under the mapping W (default 1.0)
ColumnUnder(W, cand) ==
    [k \in 1..Len(cand) |->
        IF teachers[cand[k]].teacher_id \in DOMAIN W
        THEN W[teachers[cand[k]].teacher_id] ELSE <<1, 1>>]

C20_WeightsNeverGate ==
    (pc = "loop" /\ si < Len(students)) =>
        LET student == students[si + 1]
            cand == Compatible(student)
            able == {j \in 1..Len(teachers) :
                        CouldServe(j, student, teacher_slots)}
        IN /\ \A j \in 1..Len(teachers) :
                 subject_overlap(student.subjects, teachers[j].subjects)
                    => \E k \in 1..Len(cand) : cand[k] = j
           /\ \A W \in AltWeights :
                 \A perm \in sort_values(ColumnUnder(W, cand)) :
                    LET order == [k \in 1..Len(cand) |-> cand[perm[k]]]
                        g == GreedyAttempt(student, order, final_schedule,
                                           teacher_slots)
                    IN /\ {order[k] : k \in 1..Len(order)}
                             = {cand[k] : k \in 1..Len(cand)}
                       /\ g.assigned = (able # {})
                       /\ g.assigned =>
                             /\ Len(g.schedule) = Len(final_schedule) + 1
                             /\ TeacherPos(g.schedule[Len(g.schedule)].teacher_id)
                                   \in able

\* The student about to be processed has two candidates of different
\* weight, and only the one of lower weight has a free common slot.
C20_Witness ==
    /\ pc = "loop" /\ si < Len(students)
    /\ \E a, b \in 1..Len(teachers) :
          /\ subject_overlap(students[si + 1].subjects, teachers[a].subjects)
          /\ subject_overlap(students[si + 1].subjects, teachers[b].subjects)
          /\ FracLess(WeightOf(teachers[a].teacher_id),
                      WeightOf(teachers[b].teacher_id))
          /\ CouldServe(a, students[si + 1], teacher_slots)
          /\ ~CouldServe(b, students[si + 1], teacher_slots)

-----------------------------------------------------------------------------
(* C21  Loader default-fill: for every raw cell (missing, blank, or any    *)
(* comma-separated string, strings made only of commas and blanks          *)
(* included) safe_split returns a non-empty list of non-empty strings, so  *)
(* no row of the loaded frames has an empty subject or slot list.          *)
(* safe_split returns the default only for a missing or blank cell: a      *)
(* cell such as "," passes that test, none of its pieces survives the      *)
(* filter and the list returned is empty, so the statement does not hold   *)
(* of the code.                                                            *)

NonEmptyList(l) == l # <<>> /\ \A k \in 1..Len(l) : l[k] # <<>>

C21_LoaderDefaultFill ==
    pc = "loaded" =>
        /\ \A i \in 1..Len(students) :
              /\ NonEmptyList(students[i].subjects)
              /\ NonEmptyList(students[i].preferred_time_slots)
        /\ \A j \in 1..Len(teachers) :
              /\ NonEmptyList(teachers[j].subjects)
              /\ NonEmptyList(teachers[j].available_time_slots)

-----------------------------------------------------------------------------
(* C22  Every fallback-assigned assignment of match_with_feedback_loop     *)
(* pairs the student with a teacher who shares no subject with the         *)
(* student; equivalently, when the greedy scan has failed and the          *)
(* predicted teacher shares a subject with the student, the fallback       *)
(* attempt fails too: the greedy scan has just found every common slot of  *)
(* that teacher at capacity.                                               *)

FallbackNeverOverlaps ==
    /\ \A k \in 1..Len(final_schedule') :
          status'[StudentIndex(final_schedule'[k].student_id)] = "fallback-assigned"
             => ~subject_overlap(
                    students[StudentIndex(final_schedule'[k].student_id)].subjects,
                    TeacherRow(final_schedule'[k].teacher_id).subjects)
    /\ (pc = "loop" /\ si' = si + 1 /\ status'[si + 1] # "greedy-assigned") =>
          LET student == students[si + 1]
              predicted == predict_memo'[PredictKey(student)]
          IN subject_overlap(student.subjects, TeacherRow(predicted).subjects)
                => /\ status'[si + 1] = "unmatched"
                   /\ final_schedule' = final_schedule
                   /\ FreeCommon(TeacherPos(predicted), student, teacher_slots) = {}

C22_FallbackNeverOverlaps == [][FallbackNeverOverlaps]_vars

\* With two teachers, the greedy scan failed for a student, the predicted
\* teacher shares a subject and a slot with the student, and the student
\* is unmatched.
C22_Witness ==
    /\ Len(teachers) = 2
    /\ \E i \in 1..si :
          /\ status[i] = "unmatched"
          /\ PredictKey(students[i]) \in DOMAIN predict_memo
          /\ LET t == TeacherRow(predict_memo[PredictKey(students[i])])
             IN /\ subject_overlap(students[i].subjects, t.subjects)
                /\ students[i].preferred_time_slots \cap t.available_time_slots # {}

====
